---- MODULE Spec2Model ----
(***************************************************************************)
(* Model of the proof checker in src/index.ts (parser types from           *)
(* src/unnamed/part_000, environment dump from src/unnamed/part_001).      *)
(*                                                                         *)
(* Expressions are records carrying the `type` tag of the TypeScript       *)
(* union Expr.  A raised JavaScript Error is the record Throw(msg); a      *)
(* recursion of simp_value that never returns is the record Hang.  Both    *)
(* propagate through every caller, as an uncaught exception does.          *)
(***************************************************************************)
EXTENDS Integers, Sequences, FiniteSets, TLC

VARIABLES ast, cursor, defs, out, status, dumped, call, ret

vars == <<ast, cursor, defs, out, status, dumped, call, ret>>

----------------------------------------------------------------------------
(* Expr: the node constructors                                             *)

Ref(i) == [type |-> "ref", index |-> i]
Ident(n) == [type |-> "ident", ident |-> n]
App(f, v) == [type |-> "application", fun |-> f, value |-> v]
Lambda(h, t) == [type |-> "lambda", head |-> h, tail |-> t]
Pi(h, t) == [type |-> "pi", head |-> h, tail |-> t]
Binding(n, ty) == [type |-> "binding", ident |-> n, ty |-> ty]
error_ty == [type |-> "error"]
sorry_ty == [type |-> "sorry"]

\* stmt.def === null, defs[n].def === null
NoDef == [type |-> "null"]
\* the anonymous entry `null` of the bound stack
NULL == "<null>"

Statement(n, ty, def) == [ident |-> n, ty |-> ty, def |-> def]

\* throw new Error(msg): unwinds every caller up to the top level
Throw(msg) == [type |-> "throw", msg |-> msg]
\* a call that never returns
Hang == [type |-> "hang"]
IsExc(x) == x.type \in {"throw", "hang"}

\* the boolean results of deep_eq and member_of
BoolT == [type |-> "bool", val |-> TRUE]
BoolF == [type |-> "bool", val |-> FALSE]

\* object literals whose fields are evaluated left to right
MkApp(f, v) == IF IsExc(f) THEN f ELSE IF IsExc(v) THEN v ELSE App(f, v)
MkNode(tag, h, t) ==
  IF IsExc(h) THEN h ELSE IF IsExc(t) THEN t
  ELSE [type |-> tag, head |-> h, tail |-> t]

----------------------------------------------------------------------------
(* Bounds                                                                  *)

MaxRef == 2
MaxFuel == 6
MaxInc == 2
MaxBound == 2
MaxDecls == 4

----------------------------------------------------------------------------
(* update_refs, replace, simp_value, deep_eq                               *)

RECURSIVE update_refs(_, _)
update_refs(value, inc) ==
  IF value.type = "ref" THEN Ref(value.index + inc)
  ELSE IF value.type = "application"
    THEN App(update_refs(value.fun, inc), update_refs(value.value, inc))
  ELSE IF value.type = "pi"
    THEN Pi(update_refs(value.head, inc), update_refs(value.tail, inc))
  ELSE value

\* the `ref` branch of replace
replace_ref(tail, value, depth) ==
  IF tail.index = depth THEN update_refs(value, tail.index - 1)
  ELSE IF tail.index > depth THEN Ref(tail.index - 1)
  ELSE tail

RECURSIVE replace(_, _, _)
replace(tail, value, depth) ==
  IF tail.type = "ref" THEN replace_ref(tail, value, depth)
  ELSE IF tail.type = "application"
    THEN MkApp(replace(tail.fun, value, depth), replace(tail.value, value, depth))
  ELSE IF tail.type = "pi"
    THEN MkNode("pi", replace(tail.head, value, depth),
                      replace(tail.tail, value, depth + 1))
  ELSE IF tail.type = "ident" THEN Ident(tail.ident)
  ELSE Throw("replace: " \o tail.type)

\* simp_value with a budget of nested beta steps; the source has none, and
\* a reduction that outlives the budget is reported as Hang
RECURSIVE simp(_, _)
simp(expr, fuel) ==
  IF expr.type = "application" THEN
    IF expr.fun.type = "lambda" THEN
      LET v == simp(expr.value, fuel)
          r == IF IsExc(v) THEN v ELSE replace(expr.fun.tail, v, 1)
      IN IF IsExc(r) THEN r
         ELSE IF fuel = 0 THEN Hang
         ELSE simp(r, fuel - 1)
    ELSE MkApp(simp(expr.fun, fuel), simp(expr.value, fuel))
  ELSE IF expr.type = "lambda"
    THEN MkNode("lambda", simp(expr.head, fuel), simp(expr.tail, fuel))
  ELSE IF expr.type = "pi"
    THEN MkNode("pi", simp(expr.head, fuel), simp(expr.tail, fuel))
  ELSE expr

simp_value(expr) == simp(expr, MaxFuel)

\* a && b && c of booleans that may throw
AndAlso(x, y) == IF IsExc(x) THEN x ELSE IF x.val THEN y ELSE BoolF
Bool(b) == IF b THEN BoolT ELSE BoolF

RECURSIVE deep_eq(_, _)
deep_eq(a, b) ==
  IF a.type = "application" THEN
    IF b.type # a.type THEN BoolF
    ELSE AndAlso(deep_eq(a.fun, b.fun), deep_eq(a.value, b.value))
  ELSE IF a.type \in {"lambda", "pi"} THEN
    IF b.type # a.type THEN BoolF
    ELSE AndAlso(deep_eq(a.head, b.head), deep_eq(a.tail, b.tail))
  ELSE IF a.type = "ident" THEN Bool(b.type = a.type /\ a.ident = b.ident)
  ELSE IF a.type = "ref" THEN Bool(b.type = a.type /\ a.index = b.index)
  ELSE Throw("unreachable")

----------------------------------------------------------------------------
(* type_of, apply_type, member_of                                          *)

\* refs[refs.length - index]: undefined when the index is outside the stack
refs_at(refs, index) ==
  IF index >= 1 /\ index <= Len(refs) THEN refs[Len(refs) - index + 1] ELSE NoDef

\* apply_sorry returning the function type it was given instead of the argument
apply_sorry_fun(value) == sorry_ty

\* the `sorry` branch of apply_type
apply_sorry(value) == value

RECURSIVE type_of(_, _, _)
RECURSIVE apply_type(_, _, _, _)
RECURSIVE member_of(_, _, _, _)

type_of(ds, value, refs) ==
  IF value.type = "ident" THEN
    IF value.ident \in DOMAIN ds THEN ds[value.ident].ty
    ELSE Throw(value.ident \o " not defined")
  ELSE IF value.type = "lambda" THEN
    MkNode("pi", value.head, type_of(ds, value.tail, Append(refs, value.head)))
  ELSE IF value.type = "pi" THEN Ident("Type")
  ELSE IF value.type = "ref" THEN
    LET ref == refs_at(refs, value.index)
    IN IF ref # NoDef THEN update_refs(ref, value.index) ELSE value
  ELSE IF value.type = "application" THEN
    LET fun_ty == type_of(ds, value.fun, refs)
    IN IF IsExc(fun_ty) THEN fun_ty
       ELSE apply_type(ds, fun_ty, value.value, refs)
  ELSE Throw("type_of: " \o value.type)

apply_type(ds, fun, value, refs) ==
  IF fun.type = "pi" THEN
    LET m == member_of(ds, value, fun.head, refs)
    IN IF IsExc(m) THEN m
       ELSE IF ~m.val THEN Throw("Type mismatch")
       ELSE LET r == replace(fun.tail, value, 1)
            IN IF IsExc(r) THEN r ELSE simp_value(r)
  ELSE IF fun.type = "sorry" THEN apply_sorry(value)
  ELSE Throw("don't know how to do this")

member_of(ds, expr, ty, refs) ==
  LET t == type_of(ds, expr, refs)
  IN IF IsExc(t) THEN t ELSE deep_eq(t, ty)

----------------------------------------------------------------------------
(* rename                                                                  *)

\* lookup counting the binders from 2, the innermost found at index i + 1
RECURSIVE lookup_shifted(_, _, _)
lookup_shifted(bound, ident, i) ==
  IF i > Len(bound) THEN 0
  ELSE IF bound[Len(bound) - i + 1] = ident THEN i + 1
  ELSE lookup_shifted(bound, ident, i + 1)

\* the for loop of rename: the first i with bound[bound.length - i] equal to
\* the identifier, 0 when the loop ends without a match
RECURSIVE lookup(_, _, _)
lookup(bound, ident, i) ==
  IF i > Len(bound) THEN 0
  ELSE IF bound[Len(bound) - i + 1] = ident THEN i
  ELSE lookup(bound, ident, i + 1)

\* bound.push(...) before the tail is renamed
push_bound(bound, head) ==
  IF head.type = "binding" THEN Append(bound, head.ident) ELSE Append(bound, NULL)

\* head_scope with the binder pushed before its own annotation is renamed
head_scope_pushed(bound, head) == push_bound(bound, head)

\* the scope in which the head of a Lambda or Pi is renamed
head_scope(bound, head) == bound

\* the global branch of rename's ident case, for identifiers that are not
\* inherited properties of the defs object (`in` would find those as well)
rename_global(ds, expr) ==
  IF expr.ident \in DOMAIN ds THEN
    IF ds[expr.ident].def # NoDef THEN ds[expr.ident].def ELSE expr
  ELSE Throw(expr.ident \o " not defined")

RECURSIVE rename(_, _, _)
rename(ds, expr, bound) ==
  IF expr.type = "application" THEN
    MkApp(rename(ds, expr.fun, bound), rename(ds, expr.value, bound))
  ELSE IF expr.type \in {"lambda", "pi"} THEN
    LET new_head ==
          IF expr.head.type = "binding"
            THEN rename(ds, expr.head.ty, head_scope(bound, expr.head))
            ELSE rename(ds, expr.head, head_scope(bound, expr.head))
    IN IF IsExc(new_head) THEN new_head
       ELSE MkNode(expr.type, new_head,
                   rename(ds, expr.tail, push_bound(bound, expr.head)))
  ELSE IF expr.type = "ident" THEN
    LET i == lookup(bound, expr.ident, 1)
    IN IF i # 0 THEN Ref(i) ELSE rename_global(ds, expr)
  ELSE IF expr.type = "binding" THEN Throw("found a binding outside lambda or pi")
  ELSE IF expr.type \in {"error", "ref"} THEN Throw("error")
  ELSE Throw("unreachable")

\* defs as seeded before the first declaration
defs0 ==
  [n \in {"Type", "SORRY"} |->
     IF n = "Type" THEN [ty |-> error_ty, def |-> NoDef]
     ELSE [ty |-> sorry_ty, def |-> NoDef]]

----------------------------------------------------------------------------
(* The driver: one declaration of `ast` per step, then the dump            *)

NoDump == [type |-> "none"]
NoCall == [fn |-> "none"]
NoRet == [type |-> "none"]

\* the declarations a program is drawn from
sId(n) == Ident(n)
StmtNat == Statement("Nat", sId("Type"), NoDef)
StmtZero == Statement("zero", sId("Nat"), NoDef)
StmtId ==
  Statement("id",
    Pi(Binding("T", sId("Type")), Pi(sId("T"), sId("T"))),
    Lambda(Binding("T", sId("Type")), Lambda(Binding("x", sId("T")), sId("x"))))
StmtTest ==
  Statement("test", sId("Nat"), App(App(sId("id"), sId("Nat")), sId("zero")))
StmtZeroSorry == Statement("zero", sId("Nat"), App(sId("SORRY"), sId("Nat")))
StmtBadSorry == Statement("bad", sId("Nat"), App(sId("SORRY"), sId("zero")))
StmtSorry == Statement("SORRY", Pi(sId("Nat"), sId("Nat")), NoDef)
StmtG ==
  Statement("g", Pi(sId("Nat"), sId("Nat")),
    Lambda(Binding("y", sId("Nat")), App(App(sId("id"), sId("Nat")), sId("y"))))
StmtBad2 == Statement("bad2", sId("Nat"), App(sId("zero"), sId("zero")))
StmtType == Statement("Type", sId("Type"), NoDef)
StmtT == Statement("T", sId("Type"), sId("Type"))
StmtY == Statement("y", sId("Type"), App(App(sId("id"), sId("Type")), sId("Nat")))

Pool ==
  {StmtNat, StmtZero, StmtId, StmtTest, StmtZeroSorry, StmtBadSorry,
   StmtSorry, StmtG, StmtBad2, StmtType, StmtT, StmtY}

\* the body of the for loop up to the assignment to defs: the resolved
\* {ty, def} and whether a pass message is printed, or the error raised
check_stmt(ds, stmt) ==
  LET ty == rename(ds, stmt.ty, <<>>)
  IN IF IsExc(ty) THEN ty
     ELSE LET def == IF stmt.def # NoDef THEN rename(ds, stmt.def, <<>>) ELSE NoDef
          IN IF IsExc(def) THEN def
             ELSE IF def # NoDef THEN
               LET m == member_of(ds, def, ty, <<>>)
               IN IF IsExc(m) THEN m
                  ELSE IF m.val THEN [type |-> "ok", ty |-> ty, def |-> def, passed |-> TRUE]
                  ELSE Throw("Proof '" \o stmt.ident \o "' failed")
             ELSE [type |-> "ok", ty |-> ty, def |-> def, passed |-> FALSE]

\* store that keeps the entry of a name already bound
store_first_wins(ds, ident, ty, def) ==
  [n \in DOMAIN ds \cup {ident} |->
     IF n \in DOMAIN ds THEN ds[n] ELSE [ty |-> ty, def |-> def]]

\* defs[stmt.ident] = { ty, def }
store(ds, ident, ty, def) ==
  [n \in DOMAIN ds \cup {ident} |->
     IF n = ident THEN [ty |-> ty, def |-> def] ELSE ds[n]]

\* fail_state of a loop that swallows the error and goes on to the next declaration
fail_state_continue(r, c) == [status |-> "running", cursor |-> c + 1]

\* an uncaught error ends the process where it is
fail_state(r, c) ==
  [status |-> IF r.type = "hang" THEN "hung" ELSE "failed", cursor |-> c]

Init ==
  /\ ast = <<>>
  /\ cursor = 1
  /\ defs = defs0
  /\ out = <<>>
  /\ status = "parsing"
  /\ dumped = NoDump
  /\ call = NoCall
  /\ ret = NoRet

\* parse_statements: the next declaration of the input is pushed onto ast
Parse ==
  /\ status = "parsing"
  /\ Len(ast) < MaxDecls
  /\ \E stmt \in Pool : ast' = Append(ast, stmt)
  /\ UNCHANGED <<cursor, defs, out, status, dumped, call, ret>>

\* the input is exhausted: parse returns and the for loop begins
Parsed ==
  /\ status = "parsing"
  /\ status' = "running"
  /\ UNCHANGED <<ast, cursor, defs, out, dumped, call, ret>>

Running == status = "running" /\ cursor <= Len(ast)

\* a declaration with a body that checks
Pass ==
  /\ Running
  /\ LET stmt == ast[cursor]
         r == check_stmt(defs, stmt)
     IN /\ r.type = "ok" /\ r.passed
        /\ out' = Append(out, "Proof '" \o stmt.ident \o "' passed")
        /\ defs' = store(defs, stmt.ident, r.ty, r.def)
  /\ cursor' = cursor + 1
  /\ UNCHANGED <<ast, status, dumped, call, ret>>

\* a declaration without a body
Axiom ==
  /\ Running
  /\ LET stmt == ast[cursor]
         r == check_stmt(defs, stmt)
     IN /\ r.type = "ok" /\ ~r.passed
        /\ defs' = store(defs, stmt.ident, r.ty, r.def)
  /\ cursor' = cursor + 1
  /\ UNCHANGED <<ast, out, status, dumped, call, ret>>

\* a declaration whose processing raises an error
Fail ==
  /\ Running
  /\ LET r == check_stmt(defs, ast[cursor])
         s == fail_state(r, cursor)
     IN /\ IsExc(r)
        /\ status' = s.status
        /\ cursor' = s.cursor
  /\ UNCHANGED <<ast, defs, out, dumped, call, ret>>

\* write("./dump.json", JSON.stringify(defs, null, 2)) after the loop
Dump ==
  /\ status = "running"
  /\ cursor > Len(ast)
  /\ dumped' = defs
  /\ status' = "done"
  /\ UNCHANGED <<ast, cursor, defs, out, call, ret>>

Next == Parse \/ Parsed \/ Pass \/ Axiom \/ Fail \/ Dump

Spec == Init /\ [][Next]_vars

----------------------------------------------------------------------------
(* The kernel functions on their own: a pending call, then its return      *)

\* kernel expressions, by nesting
KLeaves == {Ref(i) : i \in 1..MaxRef} \cup {Ident("A")}
KNodes(H, X, Y) ==
  {App(x, y) : x \in X, y \in Y}
    \cup {Pi(h, y) : h \in H, y \in Y}
    \cup {Lambda(h, y) : h \in H, y \in Y}
KLevel1 == KLeaves \cup KNodes(KLeaves, KLeaves, KLeaves)
KLevel2 == KLevel1 \cup KNodes(KLeaves, KLevel1, KLeaves) \cup KNodes(KLeaves, {}, KLevel1)
KSpines == {App(App(x, y), z) : x \in KLevel1, y \in KLevel1, z \in KLeaves}
\* (x => x x) (x => x x), whose reduction never ends
Delta == Lambda(Ident("A"), App(Ref(1), Ref(1)))
Omega == App(Delta, Delta)

\* surface expressions, by nesting; `T` is no global, `Type` is an axiom and
\* `id` a global with a body
SNames == {"T", "Type", "id"}
BinderNames == {"T", "id"}
SLeaves == {Ident(n) : n \in SNames}
SHeads == SLeaves \cup {Binding(b, x) : b \in BinderNames, x \in SLeaves}
SBinders(Y) == {Pi(h, y) : h \in SHeads, y \in Y} \cup {Lambda(h, y) : h \in SHeads, y \in Y}
SLevel1 == SLeaves \cup {App(x, y) : x \in SLeaves, y \in SLeaves} \cup SBinders(SLeaves)
SLevel2 == SLevel1 \cup SBinders(SLevel1)
BoundStacks == UNION {[1..n -> BinderNames \cup {NULL}] : n \in 0..MaxBound}

\* the environment after `id : (T : Type) -> T -> T := (T : Type) => (x : T) => x;`
KDefs ==
  [n \in {"Type", "SORRY", "id"} |->
     IF n = "id"
       THEN [ty |-> Pi(Ident("Type"), Pi(Ref(1), Ref(2))),
             def |-> Lambda(Ident("Type"), Lambda(Ref(1), Ref(1)))]
       ELSE defs0[n]]

Fns == {"replace", "simp_value", "update_refs", "rename", "member_of"}

\* the calls of fn that are made
CallsOf(fn) ==
  IF fn = "replace" THEN
    {[fn |-> fn, tail |-> t, value |-> v, depth |-> 1] : t \in KLevel2, v \in KLevel1}
  ELSE IF fn = "simp_value" THEN
    {[fn |-> fn, expr |-> e] : e \in KLevel2 \cup KSpines \cup {Omega}}
  ELSE IF fn = "update_refs" THEN
    {[fn |-> fn, value |-> v, inc |-> k] : v \in KLevel2, k \in 0..MaxInc}
  ELSE IF fn = "rename" THEN
    {[fn |-> fn, expr |-> e, bound |-> b] : e \in SLevel2, b \in BoundStacks}
  ELSE
    {[fn |-> fn, expr |-> App(Ident("SORRY"), v), ty |-> t] : v \in KLevel1, t \in KLevel1}

InitK ==
  /\ \E fn \in Fns : call \in CallsOf(fn)
  /\ ret = NoRet
  /\ defs = KDefs
  /\ ast = <<>>
  /\ cursor = 1
  /\ out = <<>>
  /\ status = "running"
  /\ dumped = NoDump

Pending(fn) == call.fn = fn /\ ret = NoRet
Frame == UNCHANGED <<ast, cursor, defs, out, status, dumped, call>>

CallReplace ==
  /\ Pending("replace")
  /\ ret' = replace(call.tail, call.value, call.depth)
  /\ Frame

CallSimpValue ==
  /\ Pending("simp_value")
  /\ ret' = simp_value(call.expr)
  /\ Frame

CallUpdateRefs ==
  /\ Pending("update_refs")
  /\ ret' = update_refs(call.value, call.inc)
  /\ Frame

CallRename ==
  /\ Pending("rename")
  /\ ret' = rename(defs, call.expr, call.bound)
  /\ Frame

CallMemberOf ==
  /\ Pending("member_of")
  /\ ret' = member_of(defs, call.expr, call.ty, <<>>)
  /\ Frame

NextK == CallReplace \/ CallSimpValue \/ CallUpdateRefs \/ CallRename \/ CallMemberOf

SpecK == InitK /\ [][NextK]_vars

----------------------------------------------------------------------------
(* Properties                                                              *)

\* every Ref(i) of e satisfies 1 <= i <= n + (binders of e enclosing it), and
\* e is built from ref, ident, application, lambda and pi nodes only
RECURSIVE WellScoped(_, _)
WellScoped(e, n) ==
  IF e.type = "ref" THEN 1 <= e.index /\ e.index <= n
  ELSE IF e.type = "ident" THEN TRUE
  ELSE IF e.type = "application" THEN WellScoped(e.fun, n) /\ WellScoped(e.value, n)
  ELSE IF e.type \in {"lambda", "pi"} THEN WellScoped(e.head, n) /\ WellScoped(e.tail, n + 1)
  ELSE FALSE

RECURSIVE HasNode(_, _)
HasNode(e, tag) ==
  IF e.type = tag THEN TRUE
  ELSE IF e.type = "application" THEN HasNode(e.fun, tag) \/ HasNode(e.value, tag)
  ELSE IF e.type \in {"lambda", "pi"} THEN HasNode(e.head, tag) \/ HasNode(e.tail, tag)
  ELSE IF e.type = "binding" THEN HasNode(e.ty, tag)
  ELSE FALSE

Returned(fn) == call.fn = fn /\ ret # NoRet

\* C1: substitution preserves well-scopedness.  For every d >= 0, every
\* kernel expression tail well-scoped under d+1 outer binders and every value
\* well-scoped under d, replace(tail, value, 1) returns without an error an
\* expression well-scoped under d outer binders.
C1_SubstPreservesScope ==
  Returned("replace") =>
    \A d \in 0..MaxRef :
      (WellScoped(call.tail, d + 1) /\ WellScoped(call.value, d))
        => (~IsExc(ret) /\ WellScoped(ret, d))

\* the same for the tails replace has a case for (no Lambda in the tail)
C1_LambdaFreeTail ==
  (Returned("replace") /\ ~HasNode(call.tail, "lambda")) =>
    \A d \in 0..MaxRef :
      (WellScoped(call.tail, d + 1) /\ WellScoped(call.value, d))
        => (~IsExc(ret) /\ WellScoped(ret, d))

\* value with every Ref that is free under `cutoff` binders raised by m
RECURSIVE Lift(_, _, _)
Lift(value, m, cutoff) ==
  IF value.type = "ref"
    THEN IF value.index > cutoff THEN Ref(value.index + m) ELSE value
  ELSE IF value.type = "application"
    THEN App(Lift(value.fun, m, cutoff), Lift(value.value, m, cutoff))
  ELSE IF value.type \in {"lambda", "pi"}
    THEN [type |-> value.type, head |-> Lift(value.head, m, cutoff),
          tail |-> Lift(value.tail, m, cutoff + 1)]
  ELSE value

\* tail (of ref, ident, application and pi nodes) with the copy Lift(value, m, 0)
\* at every occurrence of the eliminated binder under m Pi binders
RECURSIVE Subst(_, _, _)
Subst(tail, value, depth) ==
  IF tail.type = "ref" THEN
    IF tail.index = depth THEN Lift(value, depth - 1, 0)
    ELSE IF tail.index > depth THEN Ref(tail.index - 1) ELSE tail
  ELSE IF tail.type = "application"
    THEN App(Subst(tail.fun, value, depth), Subst(tail.value, value, depth))
  ELSE IF tail.type = "pi"
    THEN Pi(Subst(tail.head, value, depth), Subst(tail.tail, value, depth + 1))
  ELSE tail

\* C10: capture-avoiding substitution.  At an occurrence of the eliminated
\* binder under m additional Pi binders of tail, replace(tail, value, 1)
\* inserts value with every free Ref raised by exactly m and every Ref bound
\* inside value unchanged (a closed value is inserted unchanged).
C10_CaptureAvoiding ==
  (Returned("replace") /\ ~IsExc(ret)) => ret = Subst(call.tail, call.value, 1)

\* C3: normalisation is idempotent.  Whenever simp_value(e) returns a result,
\* simp_value of that result is structurally equal (deep_eq) to it.
C3_SimpIdempotent ==
  (Returned("simp_value") /\ ~IsExc(ret)) =>
    LET again == simp_value(ret)
    IN ~IsExc(again) /\ deep_eq(again, ret) = BoolT

\* the declaration the driver is at, resolved with an empty bound stack
CurTy == rename(defs, ast[cursor].ty, <<>>)
CurDef == IF ast[cursor].def # NoDef THEN rename(defs, ast[cursor].def, <<>>) ELSE NoDef
Seeded(e) == e \in {error_ty, sorry_ty, NoDef}
Closed(e) == WellScoped(e, 0) /\ ~HasNode(e, "binding")

\* C2: kernel well-scopedness.  In every expression rename produces from a
\* declaration's ty or def with an empty bound stack (global bodies inlined
\* under binders included), every Ref(i) has 1 <= i <= the number of Lambda/Pi
\* binders whose tail encloses it, and there is no binding node; so for every
\* expression stored in defs.
C2_KernelWellScoped ==
  /\ Running =>
       /\ IsExc(CurTy) \/ Closed(CurTy)
       /\ IsExc(CurTy) \/ IsExc(CurDef) \/ CurDef = NoDef \/ Closed(CurDef)
  /\ \A n \in DOMAIN defs :
       /\ Seeded(defs[n].ty) \/ Closed(defs[n].ty)
       /\ Seeded(defs[n].def) \/ Closed(defs[n].def)

\* C2 witness: the body of `id`, with its Refs, stored inlined under the
\* binder of `g`
C2_Witness ==
  /\ "g" \in DOMAIN defs
  /\ defs["g"].def.type = "lambda"
  /\ defs["g"].def.tail.fun.fun = defs["id"].def
  /\ HasNode(defs["id"].def, "ref")

\* C4: the global environment is append-only.  Once a name is bound in defs
\* its entry {ty, def} is the same in every later state.
C4_AppendOnly ==
  [][\A n \in DOMAIN defs : n \in DOMAIN defs' /\ defs'[n] = defs[n]]_vars

\* C5 as stated: processing a declaration `name : t;` without a body never
\* fails, and afterwards type_of(Ident(name)) returns the resolved t.
C5_AxiomNeverFails ==
  [][(Running /\ ast[cursor].def = NoDef)
       => (/\ status' = "running"
           /\ ~IsExc(CurTy)
           /\ type_of(defs', Ident(ast[cursor].ident), <<>>) = CurTy)]_vars

\* C5 amended: a declaration `name : t;` without a body fails exactly when
\* resolving t fails, and then defs is unchanged; otherwise it is stored and
\* type_of(Ident(name)) returns the resolved t, and an entry of defs changes
\* only in the step that declares its name again.
C5_AxiomStored ==
  [][/\ (Running /\ ast[cursor].def = NoDef) =>
          IF IsExc(CurTy)
            THEN status' = "failed" /\ defs' = defs
            ELSE /\ status' = "running"
                 /\ type_of(defs', Ident(ast[cursor].ident), <<>>) = CurTy
     /\ \A n \in DOMAIN defs :
          \/ n \in DOMAIN defs' /\ defs'[n] = defs[n]
          \/ Running /\ ast[cursor].ident = n]_vars

\* C5 witness: the axiom `zero : Nat;` has been stored and synthesises Nat
C5_Witness ==
  /\ cursor > 1
  /\ ast[cursor - 1] = StmtZero
  /\ "zero" \in DOMAIN defs
  /\ defs["zero"].def = NoDef
  /\ type_of(defs, Ident("zero"), <<>>) = Ident("Nat")

\* C7: the driver is fail-stop.  From the state in which the declaration at
\* the cursor raises an error, and in every state after the run has stopped,
\* nothing is printed, defs is not extended and no dump is written; the
\* failing declaration is not stored; declarations are taken in source order,
\* each stored under its own name; the dump is written only after the last.
C7_FailStop ==
  [][/\ (Running /\ IsExc(check_stmt(defs, ast[cursor])))
          => (/\ status' \in {"failed", "hung"}
              /\ cursor' = cursor /\ defs' = defs /\ out' = out /\ dumped' = dumped)
     /\ status \in {"failed", "hung", "done"}
          => UNCHANGED <<ast, cursor, defs, out, dumped, status>>
     /\ status = "running" => ast' = ast
     /\ cursor' \in {cursor, cursor + 1}
     /\ (defs' # defs \/ out' # out \/ cursor' # cursor)
          => (/\ Running
              /\ cursor' = cursor + 1
              /\ DOMAIN defs' = DOMAIN defs \cup {ast[cursor].ident}
              /\ \A n \in DOMAIN defs : n = ast[cursor].ident \/ defs'[n] = defs[n])
     /\ dumped' # dumped => (status = "running" /\ cursor > Len(ast))]_vars

\* C7 witness: the run has stopped at a failing declaration after storing
\* one, with declarations left that are never processed
C7_Witness ==
  /\ status = "failed"
  /\ cursor > 1
  /\ cursor < Len(ast)
  /\ Len(out) > 0
  /\ dumped = NoDump

RECURSIVE HasRedex(_)
HasRedex(e) ==
  IF e.type = "application"
    THEN e.fun.type = "lambda" \/ HasRedex(e.fun) \/ HasRedex(e.value)
  ELSE IF e.type \in {"lambda", "pi"} THEN HasRedex(e.head) \/ HasRedex(e.tail)
  ELSE FALSE

\* C8: beta-normalisation of applied definitions.  simp_value of every
\* stored body (in particular `id Nat zero`, a global chain of Lambdas applied
\* to accepted arguments) returns without an error the fully beta-reduced
\* term, Ident zero for `test`.
C8_BetaNormalises ==
  \A n \in DOMAIN defs :
    defs[n].def # NoDef =>
      LET nf == simp_value(defs[n].def)
      IN /\ ~IsExc(nf)
         /\ ~HasRedex(nf)
         /\ (n = "test" /\ cursor > 1 /\ ast[cursor - 1] = StmtTest) => nf = Ident("zero")

\* C6 as stated: SORRY passes any check, member_of(App(Ident SORRY, v), t) is
\* true whatever v and t are.
C6_SorryPassesAny ==
  Returned("member_of") => ret = BoolT

\* C6 amended: while SORRY has its seeded entry, member_of(App(Ident SORRY, v), t)
\* is deep_eq(v, t): `name : t := SORRY v` is accepted exactly when the
\* resolved v is structurally equal to the resolved t (so `SORRY t` always is).
C6_SorryChecksArgument ==
  (Returned("member_of") /\ defs["SORRY"] = defs0["SORRY"]) =>
    /\ ret = deep_eq(call.expr.value, call.ty)
    /\ (call.expr.value = call.ty) = (ret = BoolT)

\* C6 witness: `SORRY t` has been accepted at a Pi type t with a Ref
C6_Witness ==
  /\ Returned("member_of")
  /\ call.ty.type = "pi"
  /\ HasNode(call.ty, "ref")
  /\ call.expr.value = call.ty
  /\ ret = BoolT

\* the positions of the identifiers of a surface expression; the type of an
\* annotated binder is at "head", where rename puts it
SChild(e, f) ==
  IF f = "head" /\ e.head.type = "binding" THEN e.head.ty ELSE e[f]

RECURSIVE IdentPaths(_)
IdentPaths(e) ==
  IF e.type = "ident" THEN {<<>>}
  ELSE IF e.type = "application" THEN
    {<<"fun">> \o p : p \in IdentPaths(e.fun)}
      \cup {<<"value">> \o p : p \in IdentPaths(e.value)}
  ELSE IF e.type \in {"lambda", "pi"} THEN
    {<<"head">> \o p : p \in IdentPaths(SChild(e, "head"))}
      \cup {<<"tail">> \o p : p \in IdentPaths(e.tail)}
  ELSE {}

RECURSIVE SAt(_, _)
SAt(e, p) == IF p = <<>> THEN e ELSE SAt(SChild(e, Head(p)), Tail(p))

RECURSIVE KAt(_, _)
KAt(k, p) == IF p = <<>> THEN k ELSE KAt(k[Head(p)], Tail(p))

\* the binders in scope at position p, outermost first: a binder is in scope
\* in its tail only, under its name or NULL
RECURSIVE ScopeAt(_, _, _)
ScopeAt(e, p, bound) ==
  IF p = <<>> THEN bound
  ELSE IF Head(p) = "tail" /\ e.type \in {"lambda", "pi"} THEN
    ScopeAt(e.tail, Tail(p),
            Append(bound, IF e.head.type = "binding" THEN e.head.ident ELSE NULL))
  ELSE ScopeAt(SChild(e, Head(p)), Tail(p), bound)

\* the 1-based distance from the innermost binder of the nearest binder named
\* n, 0 when there is none
Nearest(sc, n) ==
  IF \E j \in 1..Len(sc) : sc[j] = n
    THEN LET j == CHOOSE j \in 1..Len(sc) :
                    sc[j] = n /\ \A k \in (j + 1)..Len(sc) : sc[k] # n
         IN Len(sc) - j + 1
    ELSE 0

ShadowExample ==
  Lambda(Binding("T", Ident("Type")), Lambda(Binding("T", Ident("T")), Ident("T")))

RECURSIVE ShiftAll(_, _)
ShiftAll(e, k) ==
  IF e.type = "ref" THEN Ref(e.index + k)
  ELSE IF e.type = "application" THEN App(ShiftAll(e.fun, k), ShiftAll(e.value, k))
  ELSE IF e.type \in {"lambda", "pi"}
    THEN [type |-> e.type, head |-> ShiftAll(e.head, k), tail |-> ShiftAll(e.tail, k)]
  ELSE e

\* C11: index shifting is total over kernel expressions.  For every kernel
\* expression e and k >= 0, update_refs(e, k) is e with k added to the index
\* of every Ref in it, those in the head and body of a Lambda included, and
\* nothing else changed.
C11_ShiftTotal ==
  Returned("update_refs") => ret = ShiftAll(call.value, call.inc)

\* the same for the expressions without a Lambda
C11_LambdaFreeShift ==
  (Returned("update_refs") /\ ~HasNode(call.value, "lambda"))
    => ret = ShiftAll(call.value, call.inc)

\* C12: the sentinel stored as the type of `Type` is never inspected.  For
\* every sequence of declarations, those that use Ident Type as a body or as
\* an argument included, no declaration's check hands the `error` node to
\* deep_eq, so that checking never ends in the `unreachable` error of deep_eq.
C12_SentinelNeverInspected ==
  Running => check_stmt(defs, ast[cursor]) # Throw("unreachable")

====
